---- MODULE Spec2Model ----
(***************************************************************************)
(* Model of edp_redy/session.py: the EdpRedySession object, its session    *)
(* lifecycle (validate / login / logout) and the operations built on it.   *)
(*                                                                         *)
(* Every coroutine is cut at its await points.  A task is at "idle", at    *)
(* one of the await points, or at "done" (the instant the coroutine        *)
(* returns or raises, before the caller takes the result).  The server is  *)
(* the environment: each response action draws the outcome of the request  *)
(* in flight from a small set.                                             *)
(***************************************************************************)
EXTENDS Integers, Sequences, FiniteSets, TLC

\* ---------------------------------------------------------------- bounds
NumTasks == 2
MaxTime == 60
MaxModules == 2
MaxFailures == 2

\* ------------------------------------------------------ program constants
SESSION_TIME == 59
UPDATE_INTERVAL == 30
ACTIVE_POWER_ID == "home_active_power"

Tasks == 1..NumTasks

\* the public coroutines of EdpRedySession a host can call
Ops == {"validate_session", "logout", "fetch_modules", "fetch_active_power",
        "update", "set_state_var"}

\* self._session is either None or the injected aiohttp client session
None == "None"
Client == "aiohttp_client"

\* outcome of one HTTP exchange: a status code, or the exception raised
Outcomes == {"200", "500", "timeout", "client_error"}

\* seconds the wall clock may advance between two steps
TickSteps == {SESSION_TIME - UPDATE_INTERVAL, UPDATE_INTERVAL}

\* ------------------------------------------------------- response bodies
PKIDs == {"A", "B"}
NoPKID == "<no PKID>"
Attrs == {1, 2}
Nums == {1, 2}

\* a module record of Body.Modules; PKID = NoPKID stands for a record
\* without the PKID key
Module(p, a) == [PKID |-> p, attr |-> a]
ModuleRecords == {Module(p, a) : p \in PKIDs, a \in Attrs} \cup {Module(NoPKID, 1)}

RECURSIVE SeqsUpTo(_, _)
SeqsUpTo(S, n) ==
    IF n = 0 THEN {<<>>}
    ELSE LET shorter == SeqsUpTo(S, n - 1)
         IN  shorter \cup {Append(s, x) : s \in {q \in shorter : Len(q) = n - 1}, x \in S}

\* A response text.  json is what json.loads makes of it ("malformed" when
\* it raises JSONDecodeError, "read_error" when resp.text() itself raises);
\* hasBody says whether `"Body" in <value>` is true; body is the kind of
\* value under "Body"; hasKey whether the wanted key is in it; val the kind
\* of value under that key, num its number, mods its array of modules.
Body(j, hb, b, hk, v, n, m) ==
    [json |-> j, hasBody |-> hb, body |-> b, hasKey |-> hk, val |-> v, num |-> n, mods |-> m]
NoBody == Body("none", FALSE, "none", FALSE, "none", 0, <<>>)

Containers == {"string", "array", "object"}
Scalars == {"null", "number"}

OuterBodies ==
    {Body(j, FALSE, "none", FALSE, "none", 0, <<>>) : j \in {"malformed", "read_error"} \cup Scalars \cup Containers}
    \cup {Body(j, TRUE, "none", FALSE, "none", 0, <<>>) : j \in {"string", "array"}}
    \cup {Body("object", TRUE, b, FALSE, "none", 0, <<>>) : b \in Scalars \cup Containers}
    \cup {Body("object", TRUE, b, TRUE, "none", 0, <<>>) : b \in {"string", "array"}}

PowerBodies ==
    OuterBodies
    \cup {Body("object", TRUE, "object", TRUE, "number", n, <<>>) : n \in Nums}
    \cup {Body("object", TRUE, "object", TRUE, v, 0, <<>>) : v \in {"null", "string", "array", "object"}}
    \cup {Body("object", TRUE, "object", TRUE, "bool", 1, <<>>)}

ModulesBodies ==
    OuterBodies
    \cup {Body("object", TRUE, "object", TRUE, "array", 0, m) : m \in SeqsUpTo(ModuleRecords, MaxModules)}
    \cup {Body("object", TRUE, "object", TRUE, v, 0, <<>>) : v \in {"null", "number", "string", "object"}}

\* ------------------------------------------------------------------ state
VARIABLES
    session,        \* self._session
    session_time,   \* self._session_time
    modules_dict,   \* self.modules_dict
    values_dict,    \* self.values_dict
    now,            \* datetime.utcnow(), in seconds
    task,           \* per task: where its coroutine stands and what it did
    failures,       \* validations that failed since the last one that succeeded
    held,           \* the handles self._session has held so far
    seen            \* what the calls in progress have shown since all were idle

vars == <<session, session_time, modules_dict, values_dict, now, task, failures, held, seen>>

NoLast == [req |-> "none", out |-> "none", body |-> NoBody]
\* pc: the await the coroutine is suspended at; op: the public coroutine
\* called; phase: the fetch or command running (async_update runs two);
\* msucc: modules_success of line 196; session_life: the local of line 97,
\* empty while unassigned; result: what the call returned, or "raised";
\* trace: the requests issued and the values returned inside this call;
\* last: the response the coroutine resumed with; prior: the value of
\* failures when the running validation began
IdleTask == [pc |-> "idle", op |-> "none", phase |-> "none", msucc |-> "none",
             session_life |-> {}, result |-> "none", trace |-> <<>>,
             last |-> NoLast, prior |-> 0]

Init ==
    /\ session = None
    /\ session_time = 0
    /\ modules_dict = <<>>
    /\ values_dict = <<>>
    /\ now = 0
    /\ task = [t \in Tasks |-> IdleTask]
    /\ failures = 0
    /\ held = {}
    /\ seen = {}


\* ------------------------------------------------ Python value semantics
\* `key in x` for a str key: a TypeError on None or a number, a substring
\* test on a string, membership on a list, a key test on a dict
In(kind, has) ==
    IF kind \in Scalars THEN "TypeError"
    ELSE IF has THEN "True" ELSE "False"

\* x[key] for a str key that `key in x` found: only a dict can be indexed
\* by it, a string or a list raises TypeError
Subscript(kind) == IF kind = "object" THEN "ok" ELSE "TypeError"

\* mutant: the value is stored as received, in kW
Mul1000Unscaled(val, num) ==
    CASE val \in {"number", "bool"} -> [raises |-> "none", kind |-> "number", num |-> num]
      [] val \in {"string", "array"} -> [raises |-> "none", kind |-> val, num |-> 0]
      [] OTHER -> [raises |-> "TypeError", kind |-> "none", num |-> 0]

\* value * 1000 (line 147): no operand makes it raise ValueError
Mul1000(val, num) ==
    CASE val \in {"number", "bool"} -> [raises |-> "none", kind |-> "number", num |-> num * 1000]
      [] val \in {"string", "array"} -> [raises |-> "none", kind |-> val, num |-> 0]
      [] OTHER -> [raises |-> "TypeError", kind |-> "none", num |-> 0]

\* dict[key] = value
Put(dict, key, value) ==
    [k \in DOMAIN dict \cup {key} |-> IF k = key THEN value ELSE dict[k]]

\* mutant: a key already in the mapping keeps its record
RECURSIVE StoreModulesKeep(_, _)
StoreModulesKeep(dict, mods) ==
    IF mods = <<>> THEN [dict |-> dict, raised |-> FALSE]
    ELSE IF Head(mods).PKID = NoPKID THEN [dict |-> dict, raised |-> TRUE]
    ELSE StoreModulesKeep(IF Head(mods).PKID \in DOMAIN dict THEN dict
                          ELSE Put(dict, Head(mods).PKID, Head(mods)), Tail(mods))

\* mutant: the loop ends after the first module whose key is new
RECURSIVE StoreModulesStopAtNew(_, _)
StoreModulesStopAtNew(dict, mods) ==
    IF mods = <<>> THEN [dict |-> dict, raised |-> FALSE]
    ELSE IF Head(mods).PKID = NoPKID THEN [dict |-> dict, raised |-> TRUE]
    ELSE IF Head(mods).PKID \in DOMAIN dict
         THEN StoreModulesStopAtNew(Put(dict, Head(mods).PKID, Head(mods)), Tail(mods))
         ELSE [dict |-> Put(dict, Head(mods).PKID, Head(mods)), raised |-> FALSE]

\* lines 189-190: for module in Modules: modules_dict[module['PKID']] = module
\* (a module without PKID raises KeyError; the records stored before stay)
RECURSIVE StoreModules(_, _)
StoreModules(dict, mods) ==
    IF mods = <<>> THEN [dict |-> dict, raised |-> FALSE]
    ELSE IF Head(mods).PKID = NoPKID THEN [dict |-> dict, raised |-> TRUE]
    ELSE StoreModules(Put(dict, Head(mods).PKID, Head(mods)), Tail(mods))

\* iterating Body.Modules: None and numbers are not iterable; the items of
\* a non-empty string or dict are strings, which 'PKID' cannot index
IterModules(dict, b) ==
    IF b.val = "array" THEN StoreModules(dict, b.mods)
    ELSE [dict |-> dict, raised |-> TRUE]

\* lines 127-143 / 171-187: read the text, json.loads, the two key tests.
\* "ok": the wanted value was found; "False": the fetch returns False;
\* "raised": an exception no handler of the fetch catches
Extract(b) ==
    IF b.json = "read_error" THEN "raised"
    ELSE IF b.json = "malformed" THEN "False"
    ELSE IF In(b.json, b.hasBody) = "TypeError" THEN "raised"
    ELSE IF In(b.json, b.hasBody) = "False" THEN "False"
    ELSE IF Subscript(b.json) = "TypeError" THEN "raised"
    ELSE IF In(b.body, b.hasKey) = "TypeError" THEN "raised"
    ELSE IF In(b.body, b.hasKey) = "False" THEN "False"
    ELSE IF Subscript(b.body) = "TypeError" THEN "raised"
    ELSE "ok"

\* line 150: values_dict[ACTIVE_POWER_ID] = None
UnknownValue == [kind |-> "none", num |-> 0]

\* lines 127-152: what async_fetch_active_power makes of the response text
ParsePower(dict, b) ==
    IF Extract(b) # "ok" THEN [ret |-> Extract(b), dict |-> dict]
    ELSE LET p == Mul1000(b.val, b.num)
         IN  IF p.raises = "ValueError"
             THEN [ret |-> "True", dict |-> Put(dict, ACTIVE_POWER_ID, UnknownValue)]
             ELSE IF p.raises # "none" THEN [ret |-> "raised", dict |-> dict]
             ELSE [ret |-> "True",
                   dict |-> Put(dict, ACTIVE_POWER_ID, [kind |-> p.kind, num |-> p.num])]

\* lines 171-192: what async_fetch_modules makes of the response text
ParseModules(dict, b) ==
    IF Extract(b) # "ok" THEN [ret |-> Extract(b), dict |-> dict]
    ELSE LET s == IterModules(dict, b)
         IN  [ret |-> IF s.raised THEN "raised" ELSE "True", dict |-> s.dict]

\* ------------------------------------------------------ session policy
\* line 96
HasSession(sess) == sess # None

\* mutants: the boundary age counts as valid; the comparison is inverted
SessionValidInclusive(life) == life <= SESSION_TIME
SessionValidInverted(life) == life > SESSION_TIME

\* line 98
SessionValid(life) == life < SESSION_TIME

\* mutant: the expired handle is kept
ClearedHandleKept(sess) == sess

\* line 104
ClearedHandle(sess) == None

\* mutant: any response counts, whatever its status
Status200AnyStatus(out) == out \in {"200", "500"}

\* lines 58, 70, 88, 122, 166, 216: the exchange raised nothing and
\* resp.status == 200
Status200(out) == out = "200"

\* mutant: the status of the login post is not looked at
InitSessionResultAnyStatus(out) == IF out \in {"200", "500"} THEN Client ELSE None

\* mutant: the final `return session` is missing
InitSessionResultNothing(out) == None

\* mutant: every login makes a client session of its own
InitSessionResultFresh(out) == IF Status200(out) THEN "new_client" ELSE None

\* lines 62-74: the value async_init_session returns after the login post
InitSessionResult(out) == IF Status200(out) THEN Client ELSE None

\* mutant: the validation reports success whatever the handle is
ValidateResultAlways(sess) == TRUE

\* line 109
ValidateResult(sess) == sess # None

\* mutant: the result of the validation is ignored
ShortCircuitNever(ok) == FALSE

\* lines 113, 156, 203: `if not await self.async_validate_session()`
ShortCircuit(ok) == ~ok

\* line 199
UpdateResult(modules_success, active_power_success) ==
    IF modules_success = "True" /\ active_power_success = "True" THEN "True" ELSE "False"

BoolStr(b) == IF b THEN "True" ELSE "False"

\* the endpoint a fetch or command posts to
DataRequest(phase) ==
    CASE phase = "fetch_modules" -> "GetSwitchModules"
      [] phase = "fetch_active_power" -> "GetActivePower"
      [] phase = "set_state_var" -> "SetStateVar"

FirstPhase(o) == IF o = "update" THEN "fetch_modules" ELSE o

\* --------------------------------------------- control flow of one task
Emit(tk, e) == [tk EXCEPT !.trace = Append(@, e)]

\* the coroutine of the public operation returns r, or raises
Finish(tk, r) == [tk EXCEPT !.pc = "done", !.result = r]

\* self._session.<request>: an AttributeError when the handle is None
Request(tk, sess, req, pc) ==
    IF sess = None THEN Finish(Emit(tk, "none_deref"), "raised")
    ELSE [Emit(tk, req) EXCEPT !.pc = pc]

\* async_validate_session returned True: lines 100 and 109; the caller goes
\* on to its request without suspending
Proceed(tk, sess) ==
    IF tk.phase = "validate_session" THEN Finish(tk, "True")
    ELSE Request(tk, sess, DataRequest(tk.phase), "await_data")

\* lines 94-107 up to the first await of a fetch or command that starts
Begin(tk, sess, life, failed) ==
    LET tb == [tk EXCEPT !.prior = failed]
    IN  IF HasSession(sess)
        THEN LET tl == [tb EXCEPT !.session_life = {life}]
             IN  IF SessionValid(life) THEN Proceed(Emit(tl, "validate_True"), sess)
                 ELSE Request(tl, sess, "logout", "await_logout")
        ELSE [Emit(tb, "login_get") EXCEPT !.pc = "await_get", !.session_life = {}]

\* a fetch or command returns r to its caller: the host, or async_update
\* (lines 196-199), which starts the power fetch after the modules fetch
Returned(tk, sess, life, failed, r) ==
    IF r = "raised" THEN Finish(Emit(tk, "raise"), "raised")
    ELSE IF tk.op = "update" /\ tk.phase = "fetch_modules"
    THEN Begin([Emit(tk, "ret_" \o r) EXCEPT !.phase = "fetch_active_power", !.msucc = r],
               sess, life, failed)
    ELSE IF tk.op = "update"
    THEN Finish(Emit(tk, "ret_" \o r), UpdateResult(tk.msucc, r))
    ELSE Finish(Emit(tk, "ret_" \o r), r)

\* mutant: a failed login at the start of a call is tried again
ValidatedRetry(tk, sess, life, failed, ok) ==
    LET tv == Emit(tk, "validate_" \o BoolStr(ok))
    IN  IF ~ok /\ Len(tk.trace) <= 2 THEN [Emit(tk, "login_get") EXCEPT !.pc = "await_get"]
        ELSE IF tk.phase = "validate_session" THEN Finish(tv, BoolStr(ok))
        ELSE IF ShortCircuit(ok) THEN Returned(tv, sess, life, failed, "False")
        ELSE Proceed(tv, sess)

\* lines 107-109 and the caller's test of the result
Validated(tk, sess, life, failed, ok) ==
    LET tv == Emit(tk, "validate_" \o BoolStr(ok))
    IN  IF tk.phase = "validate_session" THEN Finish(tv, BoolStr(ok))
        ELSE IF ShortCircuit(ok) THEN Returned(tv, sess, life, failed, "False")
        ELSE Proceed(tv, sess)

\* the count of failed validations after one more returned ok
Counted(failed, ok) ==
    IF ok THEN 0 ELSE IF failed < MaxFailures THEN failed + 1 ELSE failed

Saw(tk, req, out, b) == [tk EXCEPT !.last = [req |-> req, out |-> out, body |-> b]]

AllIdle == \A t \in Tasks : task[t].pc = "idle"
AtReturn == \E t \in Tasks : task[t].pc = "done"

InLogin(tk) == tk.pc \in {"await_get", "await_post"}

\* what a step shows: two calls in progress; two login handshakes in
\* progress; a logout sent by this step while the data request of another
\* call is in flight
Shown ==
    {"overlap" : t \in {t \in Tasks : \E u \in Tasks \ {t} :
                            task'[t].pc # "idle" /\ task'[u].pc # "idle"}}
    \cup {"two_logins" : t \in {t \in Tasks : \E u \in Tasks \ {t} :
                            InLogin(task'[t]) /\ InLogin(task'[u])}}
    \cup {"logout_during_data" : t \in {t \in Tasks : \E u \in Tasks \ {t} :
                            /\ task[t].pc # "await_logout" /\ task'[t].pc = "await_logout"
                            /\ task'[u].pc = "await_data"}}

\* a login that failed (lines 107-108) replaces a handle that another call
\* installed since this login began
Clobbered ==
    {"clobber" : t \in {t \in Tasks : /\ InLogin(task[t]) /\ task'[t] # task[t]
                                       /\ session # None /\ session' = None}}

Observe ==
    seen' = IF \A t \in Tasks : task'[t].pc = "idle" THEN {}
            ELSE seen \cup Shown \cup Clobbered

\* ---------------------------------------------------------------- actions
\* the host calls a public coroutine; it runs to its first await
Start(t, o) ==
    /\ task[t].pc = "idle"
    /\ LET tk == [IdleTask EXCEPT !.op = o, !.phase = FirstPhase(o)]
       IN  task' = [task EXCEPT ![t] =
                IF o = "logout" THEN Request(tk, session, "logout", "await_logout")
                ELSE Begin(tk, session, now - session_time, failures)]
    /\ UNCHANGED <<session, session_time, modules_dict, values_dict, now, failures, held>>
    /\ Observe

\* one operation at a time, by the single poll loop the design assumes
Poller == CHOOSE t \in Tasks : \A u \in Tasks : t <= u
Call(o) == AllIdle /\ Start(Poller, o)

\* lines 82-92 resume; then lines 104-107, or the return of a direct call
LogoutResp(t, out) ==
    /\ task[t].pc = "await_logout"
    /\ LET tk == Saw(task[t], "logout", out, NoBody)
       IN  IF tk.op = "logout"
           THEN /\ task' = [task EXCEPT ![t] = Finish(tk, BoolStr(Status200(out)))]
                /\ UNCHANGED session
           ELSE /\ session' = ClearedHandle(session)
                /\ task' = [task EXCEPT ![t] = [Emit(tk, "login_get") EXCEPT !.pc = "await_get"]]
    /\ UNCHANGED <<session_time, modules_dict, values_dict, now, failures, held>>
    /\ Observe

\* lines 52-64 resume after the login page GET
LoginGetResp(t, out) ==
    /\ task[t].pc = "await_get"
    /\ LET tk == Saw(task[t], "login_get", out, NoBody)
       IN  IF Status200(out)
           THEN /\ task' = [task EXCEPT ![t] = [Emit(tk, "login_post") EXCEPT !.pc = "await_post"]]
                /\ UNCHANGED <<session, session_time, failures>>
           ELSE /\ session' = None
                /\ session_time' = now
                /\ failures' = Counted(failures, ValidateResult(None))
                /\ task' = [task EXCEPT ![t] =
                        Validated(tk, None, 0, failures', ValidateResult(None))]
    /\ UNCHANGED <<modules_dict, values_dict, now, held>>
    /\ Observe

\* lines 64-74 resume after the login POST, then lines 107-109
LoginPostResp(t, out) ==
    /\ task[t].pc = "await_post"
    /\ LET tk == Saw(task[t], "login_post", out, NoBody)
           new == InitSessionResult(out)
       IN  /\ session' = new
           /\ session_time' = now
           /\ failures' = Counted(failures, ValidateResult(new))
           /\ held' = held \cup ({new} \ {None})
           /\ task' = [task EXCEPT ![t] = Validated(tk, new, 0, failures', ValidateResult(new))]
    /\ UNCHANGED <<modules_dict, values_dict, now>>
    /\ Observe

\* lines 118-127, 161-171, 211-221 resume after the data or command POST
DataResp(t, out) ==
    /\ task[t].pc = "await_data"
    /\ LET tk == Saw(task[t], DataRequest(task[t].phase), out, NoBody)
           life == now - session_time
       IN  task' = [task EXCEPT ![t] =
                IF ~Status200(out) THEN Returned(tk, session, life, failures, "False")
                ELSE IF tk.phase = "set_state_var" THEN Returned(tk, session, life, failures, "True")
                ELSE [tk EXCEPT !.pc = "await_text"]]
    /\ UNCHANGED <<session, session_time, modules_dict, values_dict, now, failures, held>>
    /\ Observe

\* lines 127-152 resume after resp.text() of the power fetch
PowerText(t, b) ==
    /\ task[t].pc = "await_text"
    /\ task[t].phase = "fetch_active_power"
    /\ LET tk == Saw(task[t], "text", "200", b)
           r == ParsePower(values_dict, b)
       IN  /\ values_dict' = r.dict
           /\ task' = [task EXCEPT ![t] = Returned(tk, session, now - session_time, failures, r.ret)]
    /\ UNCHANGED <<session, session_time, modules_dict, now, failures, held>>
    /\ Observe

\* lines 171-192 resume after resp.text() of the modules fetch
ModulesText(t, b) ==
    /\ task[t].pc = "await_text"
    /\ task[t].phase = "fetch_modules"
    /\ LET tk == Saw(task[t], "text", "200", b)
           r == ParseModules(modules_dict, b)
       IN  /\ modules_dict' = r.dict
           /\ task' = [task EXCEPT ![t] = Returned(tk, session, now - session_time, failures, r.ret)]
    /\ UNCHANGED <<session, session_time, values_dict, now, failures, held>>
    /\ Observe

\* the host takes the result of a finished call
Return(t) ==
    /\ task[t].pc = "done"
    /\ task' = [task EXCEPT ![t] = IdleTask]
    /\ UNCHANGED <<session, session_time, modules_dict, values_dict, now, failures, held>>
    /\ Observe

\* the wall clock advances (never at the instant of a return)
Tick(d) ==
    /\ ~AtReturn
    /\ now + d <= MaxTime
    /\ now' = now + d
    /\ UNCHANGED <<session, session_time, modules_dict, values_dict, task, failures, held, seen>>

Responses(t) ==
    \/ \E out \in Outcomes : LogoutResp(t, out)
    \/ \E out \in Outcomes : LoginGetResp(t, out)
    \/ \E out \in Outcomes : LoginPostResp(t, out)
    \/ \E out \in Outcomes : DataResp(t, out)
    \/ \E b \in PowerBodies : PowerText(t, b)
    \/ \E b \in ModulesBodies : ModulesText(t, b)
    \/ Return(t)

Next ==
    \/ \E o \in Ops : Call(o)
    \/ \E t \in Tasks : Responses(t)
    \/ \E d \in TickSteps : Tick(d)

Spec == Init /\ [][Next]_vars

\* Operations started while others are suspended at an await.  The races
\* are on the session handle, so the server's answers are cut down to one
\* that succeeds and one that fails at each await.
\* async_update runs both fetch coroutines (lines 196-197), so the calls are
\* async_update and async_set_state_var; the clock moves by poll intervals.
ConcOps == {"update", "set_state_var"}
ConcTickSteps == {UPDATE_INTERVAL}
ConcOutcomes == {"200", "timeout"}
ConcPowerBodies ==
    {b \in PowerBodies : b.json = "malformed" \/ (b.val = "number" /\ b.num = 1)}
ConcModulesBodies ==
    {b \in ModulesBodies : b.json = "malformed" \/ b.mods = <<Module("A", 1)>>}

\* a call takes the first coroutine frame that is free
FreeTask == CHOOSE t \in Tasks : task[t].pc = "idle" /\ \A u \in Tasks : task[u].pc = "idle" => t <= u
CallConc(o) == (\E t \in Tasks : task[t].pc = "idle") /\ Start(FreeTask, o)

ResponsesConc(t) ==
    \/ \E out \in ConcOutcomes : LogoutResp(t, out)
    \/ \E out \in ConcOutcomes : LoginGetResp(t, out)
    \/ \E out \in ConcOutcomes : LoginPostResp(t, out)
    \/ \E out \in ConcOutcomes : DataResp(t, out)
    \/ \E b \in ConcPowerBodies : PowerText(t, b)
    \/ \E b \in ConcModulesBodies : ModulesText(t, b)
    \/ Return(t)

NextConc ==
    \/ \E o \in ConcOps : CallConc(o)
    \/ \E t \in Tasks : ResponsesConc(t)
    \/ \E d \in ConcTickSteps : Tick(d)

SpecConc == Init /\ [][NextConc]_vars

TypeOK ==
    /\ session \in {None, Client}
    /\ session_time \in 0..MaxTime
    /\ now \in 0..MaxTime
    /\ DOMAIN modules_dict \subseteq PKIDs
    /\ DOMAIN values_dict \subseteq {ACTIVE_POWER_ID}
    /\ failures \in 0..MaxFailures
    /\ held \subseteq {Client}
    /\ seen \subseteq {"overlap", "two_logins", "logout_during_data", "clobber"}


\* ------------------------------------------------- vocabulary of the claims
DataOps == {"fetch_modules", "fetch_active_power", "update", "set_state_var"}
DataReqs == {"GetSwitchModules", "GetActivePower", "SetStateVar"}
LoginReqs == {"login_get", "login_post"}
RetEvents == {"ret_True", "ret_False", "raise"}

Events(tr) == {tr[i] : i \in 1..Len(tr)}
Count(tr, e) == Cardinality({i \in 1..Len(tr) : tr[i] = e})

\* the events of the fetch, command or validation that ran last in a call
LastFetch(tr) ==
    LET open == IF tr # <<>> /\ tr[Len(tr)] \in RetEvents THEN SubSeq(tr, 1, Len(tr) - 1) ELSE tr
        cuts == {i \in 1..Len(open) : open[i] \in RetEvents}
        cut == IF cuts = {} THEN 0 ELSE CHOOSE i \in cuts : \A j \in cuts : j <= i
    IN  SubSeq(open, cut + 1, Len(open))

\* the events a step adds to the trace of task t
NewEvents(t) == SubSeq(task'[t].trace, Len(task[t].trace) + 1, Len(task'[t].trace))

Life(tk) == CHOOSE n \in tk.session_life : TRUE
Resumed(tk, req, out) == tk.last.req = req /\ tk.last.out = out

\* C1: a data or command request is issued only right after
\* async_validate_session returned True in the same call, through a handle
\* that is present; a validation that returns False makes the fetch or
\* command return False at once, with no data or command request.
C1_RequestsOnlyAfterValidation ==
    \A t \in Tasks :
        LET tk == task[t]
            tr == tk.trace
        IN  tk.op \in DataOps =>
              /\ \A i \in 1..Len(tr) : tr[i] \in DataReqs => i > 1 /\ tr[i - 1] = "validate_True"
              /\ "none_deref" \notin Events(tr)
              /\ tk.pc = "await_data" => session = Client
              /\ \A i \in 1..Len(tr) :
                    tr[i] = "validate_False" => i < Len(tr) /\ tr[i + 1] = "ret_False"
              /\ (tk.pc = "done" /\ tk.op # "update" /\ "validate_False" \in Events(tr))
                    => tk.result = "False"

C1_Witness ==
    \E t \in Tasks :
        /\ task[t].op = "update" /\ task[t].pc = "done"
        /\ "validate_False" \in Events(task[t].trace)
        /\ Events(task[t].trace) \cap DataReqs # {}

\* C2: a validation that finds a handle of age below SESSION_TIME issues no
\* login request (and no logout); one that finds age >= SESSION_TIME, the
\* boundary included, logs out and starts the login handshake, and no data
\* or command request of that call goes out before the login POST.
C2_ExpiryThreshold ==
    \A t \in Tasks :
        LET tk == task[t]
            seg == LastFetch(tk.trace)
        IN  (tk.pc # "idle" /\ tk.session_life # {}) =>
              /\ Life(tk) < SESSION_TIME =>
                    Events(seg) \cap (LoginReqs \cup {"logout"}) = {}
              /\ Life(tk) >= SESSION_TIME =>
                    /\ seg # <<>> /\ seg[1] = "logout"
                    /\ tk.pc # "await_logout" => Len(seg) >= 2 /\ seg[2] = "login_get"
                    /\ \A i \in 1..Len(seg) :
                          seg[i] \in DataReqs => \E j \in 1..(i - 1) : seg[j] = "login_post"

C2_Witness ==
    \E t \in Tasks :
        /\ task[t].session_life = {SESSION_TIME}
        /\ task[t].pc = "await_data"
        /\ "login_post" \in Events(LastFetch(task[t].trace))

\* C3: a validation that finds the session Active (handle present, age below
\* SESSION_TIME) returns True in the same step, issues no logout and no
\* login request, and leaves the handle and the session clock as they were.
C3_Step(t) ==
    LET new == NewEvents(t)
        active == session = Client /\ now - session_time < SESSION_TIME
        first == task[t].pc = "idle" /\ task'[t].pc # "idle" /\ task'[t].op # "logout"
        second == /\ task[t].op = "update" /\ task[t].phase = "fetch_modules"
                  /\ task'[t].phase = "fetch_active_power"
                  /\ task[t].pc \in {"await_data", "await_text"}
        val == IF first THEN new ELSE Tail(new)
    IN  (active /\ (first \/ second)) =>
            /\ val # <<>> /\ val[1] = "validate_True"
            /\ Events(val) \cap (LoginReqs \cup {"logout"}) = {}
            /\ task'[t].op = "validate_session" =>
                  task'[t].pc = "done" /\ task'[t].result = "True" /\ val = <<"validate_True">>
            /\ session' = session
            /\ session_time' = session_time

C3_ActiveFastPath == [][\A t \in Tasks : C3_Step(t)]_vars

C3_Witness ==
    \E t \in Tasks :
        /\ task[t].op = "validate_session" /\ task[t].pc = "done"
        /\ task[t].session_life = {SESSION_TIME - 1}
        /\ task[t].result = "True"

\* C4: a validation that finds the session Expired sends one logout through
\* the handle, clears the handle when the logout is over, whatever its
\* outcome, and only then starts the login with the landing-page GET; when
\* the login POST returns 200 the validation returns True with age 0.
C4_ExpiredRenewal ==
    \A t \in Tasks :
        LET tk == task[t]
            seg == LastFetch(tk.trace)
        IN  tk.op # "logout" =>
              /\ tk.pc = "await_logout" => seg = <<"logout">> /\ session = Client
              /\ (seg # <<>> /\ seg[1] = "logout") =>
                    /\ Count(seg, "logout") = 1
                    /\ tk.pc # "await_logout" => Len(seg) >= 2 /\ seg[2] = "login_get"
              /\ tk.pc \in {"await_get", "await_post"} => session = None
              /\ (tk.op = "validate_session" /\ tk.pc = "done" /\ Resumed(tk, "login_post", "200"))
                    => tk.result = "True" /\ session = Client /\ now - session_time = 0

C4_Witness ==
    \E t \in Tasks :
        /\ task[t].pc = "await_get"
        /\ Resumed(task[t], "logout", "timeout")
        /\ LastFetch(task[t].trace) = <<"logout", "login_get">>
        /\ session = None

\* C5: the login POST is issued only right after the landing-page GET and
\* only when that GET returned 200; a handshake in which either step raised
\* or returned another status leaves no handle and makes the validation
\* return False; one in which both returned 200 installs the handle.
C5_LoginHandshake ==
    \A t \in Tasks :
        LET tk == task[t]
            tr == tk.trace
        IN  /\ \A i \in 1..Len(tr) : tr[i] = "login_post" => i > 1 /\ tr[i - 1] = "login_get"
            /\ tk.pc = "await_post" => Resumed(tk, "login_get", "200") /\ session = None
            /\ (tk.pc = "done" /\ tk.last.req = "login_get") => tk.last.out # "200"
            /\ (tk.pc = "done" /\ tk.last.req \in LoginReqs /\ tk.last.out # "200")
                  => session = None /\ tk.result = "False"
            /\ (tk.pc = "done" /\ Resumed(tk, "login_post", "200"))
                  => session = Client /\ tk.result = "True" /\ session_time = now

C5_Witness ==
    \E t \in Tasks :
        /\ task[t].op = "validate_session" /\ task[t].pc = "done"
        /\ Resumed(task[t], "login_post", "500")
        /\ task[t].result = "False" /\ session = None

\* C6: while validations have failed and none has succeeded since, there is
\* no handle; a validation that begins then issues no logout and starts with
\* the landing-page GET, and when both login steps return 200 it returns
\* True with the session Active.
C6_RecoversAfterFailure ==
    /\ failures > 0 => session = None
    /\ \A t \in Tasks :
        LET tk == task[t]
            seg == LastFetch(tk.trace)
        IN  (tk.pc # "idle" /\ tk.op # "logout" /\ tk.prior > 0) =>
              /\ tk.session_life = {}
              /\ seg # <<>> /\ seg[1] = "login_get"
              /\ "logout" \notin Events(seg)
              /\ (tk.pc = "done" /\ Resumed(tk, "login_post", "200")) =>
                    /\ tk.result = "True"
                    /\ session = Client /\ now - session_time < SESSION_TIME

C6_Witness ==
    \E t \in Tasks :
        /\ task[t].op = "validate_session" /\ task[t].pc = "done"
        /\ task[t].prior = MaxFailures
        /\ task[t].result = "True" /\ session = Client


\* the step in which task t resumes with the text of a response
TextStep(t) == task[t].pc = "await_text" /\ task'[t] # task[t]

\* the text is malformed JSON, or JSON without Body, or its Body is without
\* the key the fetch wants
Lacking(b) ==
    \/ b.json = "malformed"
    \/ b.json \in Scalars \cup Containers /\ ~b.hasBody
    \/ b.json = "object" /\ b.hasBody /\ ~b.hasKey

\* C7: every call of async_update, async_fetch_modules,
\* async_fetch_active_power and async_set_state_var ends by returning True
\* or False, never by raising, whatever the server answers.
C7_AlwaysReturnsBoolean ==
    \A t \in Tasks :
        (task[t].pc = "done" /\ task[t].op \in DataOps) => task[t].result \in {"True", "False"}

\* C8: a fetch whose response text is malformed JSON, or JSON that lacks
\* Body, or whose Body lacks the wanted key, returns False and leaves
\* values_dict and modules_dict as they were.
C8_Step(t) ==
    (TextStep(t) /\ Lacking(task'[t].last.body)) =>
        /\ NewEvents(t) # <<>> /\ NewEvents(t)[1] = "ret_False"
        /\ modules_dict' = modules_dict
        /\ values_dict' = values_dict

C8_LackingBodyReturnsFalse == [][\A t \in Tasks : C8_Step(t)]_vars

\* C9: a call of async_update that is over ran the modules fetch and then
\* the power fetch, each to its return, with every GetSwitchModules request
\* before the return of the modules fetch and every GetActivePower request
\* after it, and returned True exactly when both fetches returned True.
C9_UpdateRunsBothFetches ==
    \A t \in Tasks :
        LET tk == task[t]
            tr == tk.trace
            rets == {i \in 1..Len(tr) : tr[i] \in {"ret_True", "ret_False"}}
        IN  (tk.op = "update" /\ tk.pc = "done") =>
              /\ Cardinality(rets) = 2
              /\ \A r \in rets :
                    \/ r = Len(tr) /\ \A i \in 1..Len(tr) : tr[i] = "GetSwitchModules" => i < r
                    \/ r < Len(tr) /\ \A i \in 1..Len(tr) :
                          /\ tr[i] = "GetSwitchModules" => i < r
                          /\ tr[i] = "GetActivePower" => i > r
              /\ tk.result \in {"True", "False"}
              /\ tk.result = "True" <=> \A r \in rets : tr[r] = "ret_True"

\* the keys of a modules response
Keys(mods) == {mods[i].PKID : i \in 1..Len(mods)}

\* the records of the response that the mapping must hold after the fetch
StoredAfter(mods, must) ==
    \A i \in must :
        /\ mods[i].PKID \in DOMAIN modules_dict'
        /\ modules_dict'[mods[i].PKID] = mods[i]

KeptAfter(mods) ==
    \A k \in DOMAIN modules_dict \ Keys(mods) :
        k \in DOMAIN modules_dict' /\ modules_dict'[k] = modules_dict[k]

FetchedModules(t) ==
    /\ TextStep(t) /\ task[t].phase = "fetch_modules"
    /\ NewEvents(t) # <<>> /\ NewEvents(t)[1] = "ret_True"

\* C10 as stated: after a successful async_fetch_modules every module of the
\* response is in modules_dict under its PKID, the keys absent from the
\* response keep their records, and the key set never shrinks.
C10_EveryModuleStored ==
    [][/\ \A t \in Tasks :
            FetchedModules(t) =>
                LET mods == task'[t].last.body.mods
                IN  StoredAfter(mods, 1..Len(mods)) /\ KeptAfter(mods)
       /\ DOMAIN modules_dict \subseteq DOMAIN modules_dict']_vars

\* C10 amended: after a successful async_fetch_modules modules_dict holds,
\* under every PKID of the response, the last module of the response with
\* that PKID, whatever record the key had; the keys absent from the response
\* keep their records, and the key set never shrinks.
C10_LastModuleStored ==
    [][/\ \A t \in Tasks :
            FetchedModules(t) =>
                LET mods == task'[t].last.body.mods
                    last == {i \in 1..Len(mods) :
                                \A j \in (i + 1)..Len(mods) : mods[j].PKID # mods[i].PKID}
                IN  StoredAfter(mods, last) /\ KeptAfter(mods)
       /\ DOMAIN modules_dict \subseteq DOMAIN modules_dict']_vars

\* a fetch just replaced the record of A and left the record of B alone
C10_Witness ==
    \E t \in Tasks :
        /\ task[t].pc = "done" /\ task[t].op = "fetch_modules" /\ task[t].result = "True"
        /\ task[t].last.body.mods = <<Module("A", 1), Module("A", 2)>>
        /\ DOMAIN modules_dict = {"A", "B"}
        /\ modules_dict["A"] = Module("A", 2)

\* C11: applying the same successful modules response twice in a row gives
\* the mapping that applying it once gives: right after a fetch stored a
\* response, parsing that response again succeeds and leaves every entry of
\* modules_dict as it is, also when the response names a PKID more than once.
C11_ModulesUpdateIdempotent ==
    [][\A t \in Tasks :
          FetchedModules(t) =>
              LET again == ParseModules(modules_dict', task'[t].last.body)
              IN  again.ret = "True" /\ again.dict = modules_dict']_vars

C11_Witness ==
    \E t \in Tasks :
        LET tk == task[t]
        IN  /\ tk.op = "fetch_modules" /\ tk.pc = "done" /\ tk.result = "True"
            /\ tk.last.body.mods = <<Module("A", 2), Module("A", 1)>>
            /\ modules_dict = [k \in {"A", "B"} |-> Module(k, IF k = "A" THEN 1 ELSE 2)]

\* the power fetch of task t resumes with a response text whose
\* Body.ActivePower is of one of the given kinds
PowerValueStep(t, kinds) ==
    /\ TextStep(t) /\ task[t].phase = "fetch_active_power"
    /\ Extract(task'[t].last.body) = "ok"
    /\ task'[t].last.body.val \in kinds

\* C12: after a successful async_fetch_active_power whose response carries a
\* numeric Body.ActivePower v, values_dict[ACTIVE_POWER_ID] is v * 1000 and
\* the fetch returns True; no other key of values_dict and no entry of
\* modules_dict is changed.
C12_PowerScaledBy1000 ==
    [][\A t \in Tasks :
          PowerValueStep(t, {"number"}) =>
              /\ NewEvents(t) # <<>> /\ NewEvents(t)[1] = "ret_True"
              /\ DOMAIN values_dict' = DOMAIN values_dict \cup {ACTIVE_POWER_ID}
              /\ values_dict'[ACTIVE_POWER_ID] =
                    [kind |-> "number", num |-> task'[t].last.body.num * 1000]
              /\ \A k \in DOMAIN values_dict \ {ACTIVE_POWER_ID} : values_dict'[k] = values_dict[k]
              /\ modules_dict' = modules_dict]_vars

C12_Witness ==
    \E t \in Tasks :
        LET tk == task[t]
        IN  /\ tk.op = "fetch_active_power" /\ tk.pc = "done" /\ tk.result = "True"
            /\ tk.last.body.val = "number" /\ tk.last.body.num = 2
            /\ values_dict[ACTIVE_POWER_ID] = [kind |-> "number", num |-> 2000]
            /\ modules_dict # <<>>

\* C13: when the power response contains Body.ActivePower but its value
\* cannot be converted to a number (a string, null, a nested object or a
\* list), async_fetch_active_power stores the unknown marker None under
\* ACTIVE_POWER_ID and returns True.
C13_UnparsableStoredAsUnknown ==
    [][\A t \in Tasks :
          PowerValueStep(t, {"string", "null", "object", "array"}) =>
              /\ NewEvents(t) # <<>> /\ NewEvents(t)[1] = "ret_True"
              /\ ACTIVE_POWER_ID \in DOMAIN values_dict'
              /\ values_dict'[ACTIVE_POWER_ID] = UnknownValue]_vars

\* C14: async_set_state_var returns True exactly when its validation
\* returned True and its one SetStateVar POST completed with status 200 (no
\* transport error, no timeout); the response body is never read; no step of
\* the call changes modules_dict or values_dict.
C14_SetStateVar ==
    [][\A t \in Tasks :
          (task'[t].op = "set_state_var" /\ task'[t] # task[t]) =>
              /\ modules_dict' = modules_dict /\ values_dict' = values_dict
              /\ task'[t].pc # "await_text"
              /\ Count(task'[t].trace, "SetStateVar") <= 1
              /\ task'[t].pc = "done" =>
                    /\ task'[t].result \in {"True", "False"}
                    /\ task'[t].result = "True" <=>
                          /\ "validate_True" \in Events(task'[t].trace)
                          /\ task[t].pc = "await_data"
                          /\ Resumed(task'[t], "SetStateVar", "200")]_vars

C14_Witness ==
    \E t \in Tasks :
        LET tk == task[t]
        IN  /\ tk.op = "set_state_var" /\ tk.pc = "done" /\ tk.result = "True"
            /\ tk.trace = <<"logout", "login_get", "login_post", "validate_True",
                            "SetStateVar", "ret_True">>
            /\ modules_dict # <<>> /\ values_dict # <<>>

RequestKinds == {"logout"} \cup LoginReqs \cup DataReqs

\* C15 as stated: during one call of async_fetch_modules,
\* async_fetch_active_power, async_set_state_var or async_update each kind
\* of request (logout, login page GET, login POST, each data or command
\* endpoint) is issued at most once.
C15_NoRequestTwicePerCall ==
    \A t \in Tasks :
        task[t].op \in DataOps =>
            \A k \in RequestKinds : Count(task[t].trace, k) <= 1

\* C15, amended: no request is retried inside a fetch or command.  Between
\* two requests of the same kind in one call a fetch has returned, which
\* happens only in async_update, whose two fetches validate separately: it
\* issues each of logout, login page GET and login POST at most twice, once
\* per fetch, and each data endpoint at most once.
C15_NoRequestTwicePerFetch ==
    \A t \in Tasks :
        LET tr == task[t].trace
        IN  task[t].op \in DataOps =>
              /\ \A i, j \in 1..Len(tr) :
                    (i < j /\ tr[i] = tr[j] /\ tr[i] \in RequestKinds) =>
                        /\ task[t].op = "update"
                        /\ \E m \in (i + 1)..(j - 1) : tr[m] \in RetEvents
              /\ \A k \in RequestKinds : Count(tr, k) <= 2
              /\ \A k \in DataReqs : Count(tr, k) <= 1

C15_Witness ==
    \E t \in Tasks :
        /\ task[t].op = "update" /\ task[t].pc = "done"
        /\ Count(task[t].trace, "logout") = 1
        /\ \A k \in LoginReqs : Count(task[t].trace, k) = 2
        /\ \A k \in {"GetSwitchModules", "GetActivePower"} : Count(task[t].trace, k) = 1

\* C16: a modules response in which some module record lacks the PKID key
\* is a failed fetch, not a partial success: async_fetch_modules returns
\* False and modules_dict takes none of the records of that response.
C16_MissingPKIDFailsWhole ==
    [][\A t \in Tasks :
          LET b == task'[t].last.body
          IN  (/\ TextStep(t) /\ task[t].phase = "fetch_modules"
               /\ Extract(b) = "ok" /\ b.val = "array" /\ NoPKID \in Keys(b.mods)) =>
                  /\ NewEvents(t) # <<>> /\ NewEvents(t)[1] = "ret_False"
                  /\ modules_dict' = modules_dict]_vars

\* C19: an explicit async_logout on an Active session destroys the session:
\* when the call returns the manager holds no handle, so that the next
\* public operation starts with the login handshake.
C19_LogoutDestroysSession ==
    \A t \in Tasks :
        (task[t].op = "logout" /\ task[t].pc = "done" /\ "logout" \in Events(task[t].trace))
            => session = None

\* a login of task t succeeds in this step although the manager held a
\* handle before: a renewal
Renewed(t) ==
    /\ task[t].pc = "await_post" /\ task'[t] # task[t]
    /\ session' # None /\ held # {}

Races == {"two_logins", "logout_during_data", "clobber"}

\* C17: the races on the session handle need two calls in progress at once.
\* Two login handshakes in progress together, a logout sent while the data
\* request of another call is in flight, a failed login clearing the handle
\* another call has just installed, and a handle present while a login
\* handshake runs are seen only after two calls overlapped; calls made
\* strictly one at a time show none of them.
C17_RacesOnlyWhenOverlapping ==
    /\ seen \cap Races # {} => "overlap" \in seen
    /\ \A t \in Tasks : (InLogin(task[t]) /\ session # None) => "overlap" \in seen
    /\ \A t \in Tasks : (task[t].pc = "await_data" /\ session = None) => "overlap" \in seen

\* all three races have happened since the calls in progress began
C17_Witness == Races \subseteq seen

\* C20: whatever the interleaving of async_update, the fetches and
\* async_set_state_var at their await points, no logout, data or command
\* request is issued through a handle that is None: the test or assignment
\* of the handle and the request that uses it are in one step.
C20_NoRequestThroughNone ==
    \A t \in Tasks :
        task[t].op \in DataOps =>
            /\ "none_deref" \notin Events(task[t].trace)
            /\ task[t].pc = "done" =>
                  (task[t].result = "raised" => task[t].last.req = "text")

\* a data request is in flight through a handle that a failed login of
\* another call has cleared meanwhile
C20_Witness ==
    /\ "clobber" \in seen
    /\ session = None
    /\ \E t \in Tasks : task[t].pc = "await_data" /\ task[t].op = "update"

====
